---- MODULE Spec2Model ----
(***************************************************************************)
(* Model of the wolves_cli_helper crate: the named-timer registry of       *)
(* src/src/timers.rs (Timer, Timers) and the string map of                 *)
(* src/src/sysinfo.rs (SystemInfo::new_to_hashmap).                        *)
(*                                                                         *)
(* Timestamps are chrono DateTime<Local> values: readings of the wall      *)
(* clock, finer than a millisecond.  A reading is an integer number of     *)
(* ticks, TicksPerMs ticks to the millisecond.  The wall clock is not      *)
(* monotonic: it may be stepped backwards between any two readings.        *)
(* i64 is modelled IntBits wide, two's complement.                         *)
(***************************************************************************)
EXTENDS Integers, Sequences, FiniteSets, TLC

VARIABLES
    timer,      \* Timers.timer: HashMap<String, Timer>, a function on its key set
    now,        \* the wall clock: what Local::now() returns when read
    skewed,     \* history: the wall clock has been stepped backwards
    endret,     \* history: name -> value returned by the latest Timers::end on
                \*          the timer now stored under name
    last,       \* the latest registry call: its arguments and its outcome
    sys_info,   \* a SystemInfo value
    infomap     \* the HashMap<String, String> built from sys_info, or NoMap

vars == <<timer, now, skewed, endret, last, sys_info, infomap>>

timervars == <<timer, now, skewed, endret, last>>

sysvars == <<sys_info, infomap>>

----------------------------------------------------------------------------
(* Bounds of the model *)

MaxClock == 4

TicksPerMs == 2

IntBits == 16

MaxDisks == 1

(* qty * 1000 in Timers::rate *)
MillisPerSec == 1000

Names == {"a", "b"}

Clock == 0..MaxClock

IntMax == 2^(IntBits - 1) - 1

IntMin == -(2^(IntBits - 1))

(* Quantities handed to rate: negative, zero, small, the smallest whose    *)
(* product with 1000 leaves the i64 range, and the one whose wrapped       *)
(* product is IntMin.                                                      *)
Qty == {-1, 0, 3, (IntMax \div MillisPerSec) + 1, 2^(IntBits - 4)}

----------------------------------------------------------------------------
(* Integer arithmetic of the target *)

Abs(x) == IF x < 0 THEN -x ELSE x

(* Rust's / on integers: the quotient truncated toward zero (b # 0) *)
TruncDiv(a, b) ==
    IF (a >= 0) = (b > 0) THEN Abs(a) \div Abs(b) ELSE -(Abs(a) \div Abs(b))

(* Two's-complement wrap of a mathematical integer to IntBits bits *)
Wrap(x) == ((x - IntMin) % (2^IntBits)) + IntMin

InRange(x) == IntMin <= x /\ x <= IntMax

(* TimeDelta::num_milliseconds: whole milliseconds, truncated toward zero *)
NumMilliseconds(delta) == TruncDiv(delta, TicksPerMs)

----------------------------------------------------------------------------
(* Timer *)

(* Variant: the running case forgotten, endtime - starttime always *)
TimerDurationEndMinusStart(t, clk) == NumMilliseconds(t.endtime - t.starttime)

TimerDuration(t, clk) ==
    IF t.endtime = t.starttime
    THEN NumMilliseconds(clk - t.starttime)
    ELSE NumMilliseconds(t.endtime - t.starttime)

(* Variant: ending restarts the timer, starttime moved as well *)
TimerEndRestarts(t, clk) == [starttime |-> clk, endtime |-> clk]

TimerEnd(t, clk) == [t EXCEPT !.endtime = clk]

TimerNew(clk) == [starttime |-> clk, endtime |-> clk]

----------------------------------------------------------------------------
(* Timers *)

NoTimers == [n \in {} |-> TimerNew(0)]

TimersNew(timer_name, clk) == [n \in {timer_name} |-> TimerNew(clk)]

TimersDefault == NoTimers

(* Variant: a name already stored keeps its timer *)
TimersAddKeepsOld(m, timer_name, clk) ==
    [n \in DOMAIN m \cup {timer_name} |->
        IF n \in DOMAIN m THEN m[n] ELSE TimerNew(clk)]

(* add(timer_name): the registry with a new running timer stored under    *)
(* timer_name.  impl Timers defines no add; TA! is its caller.             *)
TimersAdd(m, timer_name, clk) ==
    [n \in DOMAIN m \cup {timer_name} |->
        IF n = timer_name THEN TimerNew(clk) ELSE m[n]]

(* Outcome of a call: the value returned, or the panic that ended it *)
Returned(v) == [ret |-> v, panic |-> "none"]

Panicked(why) == [ret |-> 0, panic |-> why]

(* qty * 1000 / _duration on i64.  The product overflows when it leaves    *)
(* the i64 range: a panic when the build checks overflow, a wrapped value  *)
(* when it does not.  Division by zero, and IntMin / -1, always panic.     *)
RateArith(qty, _duration, overflow_checks) ==
    LET product == qty * MillisPerSec
    IN  IF ~InRange(product) /\ overflow_checks THEN Panicked("overflow")
        ELSE IF _duration = 0 THEN Panicked("div0")
        ELSE IF Wrap(product) = IntMin /\ _duration = -1 THEN Panicked("overflow")
        ELSE Returned(TruncDiv(Wrap(product), _duration))

(* Variant: an absent name treated as a timer created at the call *)
TimersRateNoAbsent(m, timer_name, qty, clk1, clk2, overflow_checks) ==
    LET t == IF timer_name \in DOMAIN m THEN m[timer_name] ELSE TimerNew(clk1)
        _duration == IF TimerDuration(t, clk1) = 0 THEN 1
                     ELSE TimerDuration(t, clk2)
    IN RateArith(qty, _duration, overflow_checks)

(* Timers::rate: clk1 is the clock as the zero test reads it, clk2 as the  *)
(* second _timer.duration() reads it.                                      *)
TimersRate(m, timer_name, qty, clk1, clk2, overflow_checks) ==
    IF timer_name \in DOMAIN m
    THEN LET _duration == IF TimerDuration(m[timer_name], clk1) = 0 THEN 1
                          ELSE TimerDuration(m[timer_name], clk2)
         IN RateArith(qty, _duration, overflow_checks)
    ELSE Returned(-1)

TimersDuration(m, timer_name, clk) ==
    IF timer_name \in DOMAIN m THEN TimerDuration(m[timer_name], clk) ELSE -1

(* Timers::end: the registry after the call.  clk1 is the reading          *)
(* Timer::end stores.                                                      *)
TimersEndMap(m, timer_name, clk1) ==
    IF timer_name \in DOMAIN m
    THEN [m EXCEPT ![timer_name] = TimerEnd(m[timer_name], clk1)]
    ELSE m

(* Timers::end: the value returned.  clk2 is the reading the following     *)
(* _timer.duration() takes, should it read the clock.                      *)
TimersEndRet(m, timer_name, clk1, clk2) ==
    IF timer_name \in DOMAIN m
    THEN TimerDuration(TimerEnd(m[timer_name], clk1), clk2)
    ELSE -1

----------------------------------------------------------------------------
(* State machine of the registry *)

NoEnds == [n \in {} |-> 0]

(* prev: what an add found stored under the name *)
Call(op, name, qty, out) ==
    [op |-> op, name |-> name, qty |-> qty, ret |-> out.ret, panic |-> out.panic,
     prev |-> "none"]

NoCall == Call("none", "", 0, Returned(0))

NoSysInfo ==
    [system_name |-> <<>>, kernel_version |-> <<>>, os_version |-> <<>>,
     hostname |-> <<>>, cpu_cores |-> 0, cpu_virtual_cores |-> 0,
     total_memory |-> 0, used_memory |-> 0, total_swap |-> 0, used_swap |-> 0,
     disks |-> <<>>]

NoMap == [k \in {} |-> <<>>]

Drop(f, n) == [k \in DOMAIN f \ {n} |-> f[k]]

Init ==
    /\ now \in Clock
    /\ \E n \in Names :
          /\ timer = TimersNew(n, now)
          /\ last = Call("new", n, 0, Returned(0))
    /\ skewed = FALSE
    /\ endret = NoEnds
    /\ sys_info = NoSysInfo
    /\ infomap = NoMap

(* Time passes, or the wall clock is set: the next reading differs *)
ClockTick ==
    /\ \E t \in Clock \ {now} :
          /\ now' = t
          /\ skewed' = (skewed \/ t < now)
    /\ last' = NoCall
    /\ UNCHANGED <<timer, endret, sysvars>>

(* TC!: Timers::new(timer_name) *)
New(n) ==
    /\ timer' = TimersNew(n, now)
    /\ endret' = NoEnds
    /\ last' = Call("new", n, 0, Returned(0))
    /\ UNCHANGED <<now, skewed, sysvars>>

(* Timers::default() *)
Default ==
    /\ timer' = TimersDefault
    /\ endret' = NoEnds
    /\ last' = Call("default", "", 0, Returned(0))
    /\ UNCHANGED <<now, skewed, sysvars>>

(* TA!: add(timer_name) *)
Add(n) ==
    /\ timer' = TimersAdd(timer, n, now)
    /\ endret' = Drop(endret, n)
    /\ last' = [Call("add", n, 0, Returned(0)) EXCEPT
                    !.prev = IF n \notin DOMAIN timer THEN "absent"
                             ELSE IF n \in DOMAIN endret THEN "ended"
                             ELSE "running"]
    /\ UNCHANGED <<now, skewed, sysvars>>

(* TE!: Timers::end(timer_name).  Timer::end reads the clock (now); the    *)
(* duration() that follows reads it again (t2) when endtime == starttime.  *)
End(n) ==
    \E t2 \in (IF n \in DOMAIN timer /\ timer[n].starttime = now
                THEN Clock ELSE {now}) :
        LET r == TimersEndRet(timer, n, now, t2)
        IN  /\ timer' = TimersEndMap(timer, n, now)
            /\ endret' = IF n \in DOMAIN timer
                         THEN [k \in DOMAIN endret \cup {n} |->
                                  IF k = n THEN r ELSE endret[k]]
                         ELSE endret
            /\ last' = Call("end", n, 0, Returned(r))
            /\ now' = t2
            /\ skewed' = (skewed \/ t2 < now)
            /\ UNCHANGED sysvars

(* TD!: Timers::duration(timer_name) *)
Duration(n) ==
    /\ last' = Call("duration", n, 0, Returned(TimersDuration(timer, n, now)))
    /\ UNCHANGED <<timer, now, skewed, endret, sysvars>>

(* TR!: Timers::rate(timer_name, qty).  A running timer's duration() reads *)
(* the clock at the zero test (now) and again for the divisor (t2).        *)
Rate(n, q) ==
    \E t2 \in (IF /\ n \in DOMAIN timer
                   /\ timer[n].endtime = timer[n].starttime
                   /\ TimerDuration(timer[n], now) # 0
                THEN Clock ELSE {now}),
       overflow_checks \in (IF InRange(q * MillisPerSec) THEN {TRUE} ELSE BOOLEAN) :
        /\ last' = Call("rate", n, q,
                        TimersRate(timer, n, q, now, t2, overflow_checks))
        /\ now' = t2
        /\ skewed' = (skewed \/ t2 < now)
        /\ UNCHANGED <<timer, endret, sysvars>>

Next ==
    \/ ClockTick
    \/ \E n \in Names : New(n)
    \/ Default
    \/ \E n \in Names : Add(n)
    \/ \E n \in Names : End(n)
    \/ \E n \in Names : Duration(n)
    \/ \E n \in Names, q \in Qty : Rate(n, q)

Spec == Init /\ [][Next]_vars

----------------------------------------------------------------------------
(* SystemInfo.  A String is a sequence of characters; an Option<String> is *)
(* <<>> for None and <<s>> for Some(s).                                    *)

Digits == <<"0", "1", "2", "3", "4", "5", "6", "7", "8", "9">>

(* usize::to_string / u64::to_string: decimal, no sign, no leading zero *)
RECURSIVE to_string(_)
to_string(n) ==
    IF n < 10 THEN <<Digits[n + 1]>>
    ELSE to_string(n \div 10) \o <<Digits[(n % 10) + 1]>>

(* HashMap::insert: the value stored under key k is replaced *)
Insert(m, k, v) == [x \in DOMAIN m \cup {k} |-> IF x = k THEN v ELSE m[x]]

(* The loop over sys_info.disks of new_to_hashmap, from disk i on *)
RECURSIVE InsertDisks(_, _, _)
InsertDisks(m, disks, i) ==
    IF i > Len(disks) THEN m
    ELSE LET disk == disks[i]
             m1 == IF disk.disk_type # <<>>
                   THEN Insert(m, "Disk Type", disk.disk_type[1]) ELSE m
             m2 == IF disk.file_system # <<>>
                   THEN Insert(m1, "File System", disk.file_system[1]) ELSE m1
             m3 == IF disk.free_space # <<>>
                   THEN Insert(m2, "Free Space", disk.free_space[1]) ELSE m2
         IN InsertDisks(m3, disks, i + 1)

(* Variant: "Used Memory" filled from total_memory *)
NewToHashmapUsedIsTotal(si) ==
    LET m1 == Insert(NoMap, "System Name", si.system_name)
        m2 == Insert(m1, "System kernel version", si.kernel_version)
        m3 == Insert(m2, "System OS version", si.os_version)
        m4 == Insert(m3, "Hostname", si.hostname)
        m5 == Insert(m4, "CPU Cores", to_string(si.cpu_cores))
        m6 == Insert(m5, "CPU Virtual Cores", to_string(si.cpu_virtual_cores))
        m7 == Insert(m6, "Total Memory", to_string(si.total_memory))
        m8 == Insert(m7, "Used Memory", to_string(si.total_memory))
        m9 == Insert(m8, "Total Swap", to_string(si.total_swap))
        m10 == Insert(m9, "Used Swap", to_string(si.used_swap))
    IN InsertDisks(m10, si.disks, 1)

NewToHashmap(si) ==
    LET m1 == Insert(NoMap, "System Name", si.system_name)
        m2 == Insert(m1, "System kernel version", si.kernel_version)
        m3 == Insert(m2, "System OS version", si.os_version)
        m4 == Insert(m3, "Hostname", si.hostname)
        m5 == Insert(m4, "CPU Cores", to_string(si.cpu_cores))
        m6 == Insert(m5, "CPU Virtual Cores", to_string(si.cpu_virtual_cores))
        m7 == Insert(m6, "Total Memory", to_string(si.total_memory))
        m8 == Insert(m7, "Used Memory", to_string(si.used_memory))
        m9 == Insert(m8, "Total Swap", to_string(si.total_swap))
        m10 == Insert(m9, "Used Swap", to_string(si.used_swap))
    IN InsertDisks(m10, si.disks, 1)

(* Field contents the snapshot may hold *)
StrVals == {<<>>, <<"L", "i", "n", "u", "x">>}

NumVals == {0, 120}

OptVals == {<<>>, <<<<"S", "S", "D">>>>}

SystemDisks ==
    [disk_type : OptVals, file_system : OptVals, free_space : OptVals]

DiskLists == UNION {[1..k -> SystemDisks] : k \in 0..MaxDisks}

SystemInfos ==
    [system_name : StrVals, kernel_version : StrVals, os_version : StrVals,
     hostname : StrVals, cpu_cores : {4, 16}, cpu_virtual_cores : {8, 16},
     total_memory : NumVals, used_memory : {0, 7}, total_swap : NumVals,
     used_swap : {0, 9}, disks : DiskLists]

InitSys ==
    /\ sys_info \in SystemInfos
    /\ infomap = NoMap
    /\ timer = TimersDefault
    /\ now = 0
    /\ skewed = FALSE
    /\ endret = NoEnds
    /\ last = NoCall

(* SystemInfo::new_to_hashmap(sys_info) *)
ToHashmap ==
    /\ last.op = "none"
    /\ infomap' = NewToHashmap(sys_info)
    /\ last' = Call("new_to_hashmap", "", 0, Returned(0))
    /\ UNCHANGED <<sys_info, timer, now, skewed, endret>>

NextSys == ToHashmap

SpecSys == InitSys /\ [][NextSys]_vars

----------------------------------------------------------------------------
(* Properties of the registry *)

Present(n) == n \in DOMAIN timer

(* end has been called on the timer stored under n *)
Ended(n) == n \in DOMAIN endret

(* C1: duration, end and rate called with a name that is not a key of the  *)
(* registry each return -1, whatever the quantity and whatever calls went  *)
(* before.                                                                 *)
C1_UnknownNameIsMinusOne ==
    (last.op \in {"duration", "end", "rate"} /\ ~Present(last.name))
        => (last.panic = "none" /\ last.ret = -1)

C1_Witness ==
    /\ last.op = "rate"
    /\ ~Present(last.name)
    /\ last.qty = -1
    /\ last.ret = -1
    /\ \E k \in Names : Present(k) /\ Ended(k)

(* C2: once end(name) has returned d, every later duration(name) returns   *)
(* d, until name is ended again or inserted again.                         *)
C2_DurationFixedAfterEnd ==
    (last.op = "duration" /\ Ended(last.name)) => last.ret = endret[last.name]

(* C3: a timer ended at the instant it was created (endtime = starttime)   *)
(* and measured as 0 has rate(name, q) = q * 1000 for q >= 0, at every     *)
(* later clock reading.  Stated for a clock that has never gone backwards  *)
(* and for the quantities whose product with 1000 fits an i64.             *)
C3_RateOfZeroDuration ==
    (/\ last.op = "rate"
     /\ ~skewed
     /\ Present(last.name)
     /\ Ended(last.name)
     /\ timer[last.name].endtime = timer[last.name].starttime
     /\ endret[last.name] = 0
     /\ last.qty >= 0
     /\ InRange(last.qty * MillisPerSec))
        => (last.panic = "none" /\ last.ret = last.qty * MillisPerSec)

(* C4: rate on a present timer with q >= 0 returns a value and never       *)
(* divides by zero, however the clock moves between its two reads; and     *)
(* rate(name, 0) = 0.  Stated for the quantities whose product with 1000   *)
(* fits an i64.                                                            *)
C4_RateIsTotal ==
    (/\ last.op = "rate"
     /\ Present(last.name)
     /\ last.qty >= 0
     /\ InRange(last.qty * MillisPerSec))
        => (last.panic = "none" /\ (last.qty = 0 => last.ret = 0))

(* C5: rate on a present timer with 0 <= q <= i64::MAX is the exact        *)
(* quotient (q * 1000) / eff truncated toward zero, eff being the timer's  *)
(* duration if that is not zero and 1 if it is; the product never wraps.   *)
C5_RateIsExactQuotient ==
    (last.op = "rate" /\ Present(last.name) /\ last.qty >= 0)
        => LET d == TimerDuration(timer[last.name], now)
               eff == IF d = 0 THEN 1 ELSE d
           IN  /\ last.panic = "none"
               /\ last.ret = TruncDiv(last.qty * MillisPerSec, eff)

(* C6: under a monotonic clock, duration, end and rate (q >= 0) on a       *)
(* present name return a value >= 0, so -1 means the name is absent.       *)
C6_SentinelUnambiguous ==
    (/\ ~skewed
     /\ last.op \in {"duration", "end", "rate"}
     /\ Present(last.name)
     /\ last.qty >= 0)
        => (last.panic = "none" /\ last.ret >= 0)

(* C7: every stored timer has endtime >= starttime, and a timer on which   *)
(* end was never called has endtime = starttime.                           *)
C7_TimerInvariant ==
    \A n \in DOMAIN timer :
        /\ timer[n].endtime >= timer[n].starttime
        /\ ~Ended(n) => timer[n].endtime = timer[n].starttime

(* C8: new(name) yields a registry whose key set is {name}, its timer      *)
(* running with endtime = starttime = the clock at creation; duration of a *)
(* timer never ended, read at a clock t >= starttime, is t - starttime in  *)
(* whole milliseconds: 0 at the creation instant, never negative.          *)
C8_NewThenDuration ==
    /\ last.op = "new" =>
          /\ DOMAIN timer = {last.name}
          /\ timer[last.name].starttime = now
          /\ timer[last.name].endtime = now
    /\ (/\ last.op = "duration"
        /\ Present(last.name)
        /\ ~Ended(last.name)
        /\ now >= timer[last.name].starttime)
          => /\ last.ret = (now - timer[last.name].starttime) \div TicksPerMs
             /\ last.ret >= 0
             /\ now = timer[last.name].starttime => last.ret = 0

C8_Witness ==
    /\ last.op = "duration"
    /\ DOMAIN timer = {last.name}
    /\ ~Ended(last.name)
    /\ now >= timer[last.name].starttime + 2 * TicksPerMs
    /\ last.ret = 2

(* C9: add(name) stores a new running timer under name, replacing the one  *)
(* stored there (ended or not) and leaving every other name's timer as it  *)
(* was; a duration(name) that follows is the clock minus the new start.    *)
C9_AddOverwrites ==
    [][/\ last'.op = "add" =>
            /\ DOMAIN timer' = DOMAIN timer \cup {last'.name}
            /\ timer'[last'.name].starttime = now'
            /\ timer'[last'.name].endtime = now'
            /\ \A k \in DOMAIN timer \ {last'.name} : timer'[k] = timer[k]
       /\ (/\ last'.op = "duration"
           /\ last'.name \in DOMAIN timer'
           /\ last'.name \notin DOMAIN endret')
            => last'.ret =
                 TruncDiv(now' - timer'[last'.name].starttime, TicksPerMs)
      ]_vars

C9_Witness ==
    /\ last.op = "add"
    /\ last.prev = "ended"
    /\ timer[last.name].starttime = now
    /\ \E k \in Names \ {last.name} : Present(k) /\ Ended(k)

(* C10: the map built from a SystemInfo holds the ten keys, each mapped to *)
(* the string form of its field: the string itself, or the decimal         *)
(* numeral that reads back as the number.                                  *)
DigitValue(c) == CHOOSE d \in 0..9 : Digits[d + 1] = c

IsNumeral(str) ==
    /\ Len(str) >= 1
    /\ \A i \in 1..Len(str) : \E d \in 0..9 : Digits[d + 1] = str[i]
    /\ Len(str) > 1 => str[1] # "0"

RECURSIVE NumeralValue(_)
NumeralValue(str) ==
    IF Len(str) = 0 THEN 0
    ELSE 10 * NumeralValue(SubSeq(str, 1, Len(str) - 1)) + DigitValue(str[Len(str)])

Reads(str, n) == IsNumeral(str) /\ NumeralValue(str) = n

TenKeys ==
    {"System Name", "System kernel version", "System OS version", "Hostname",
     "CPU Cores", "CPU Virtual Cores", "Total Memory", "Used Memory",
     "Total Swap", "Used Swap"}

C10_MapHoldsTenKeys ==
    last.op = "new_to_hashmap" =>
        /\ TenKeys \subseteq DOMAIN infomap
        /\ infomap["System Name"] = sys_info.system_name
        /\ infomap["System kernel version"] = sys_info.kernel_version
        /\ infomap["System OS version"] = sys_info.os_version
        /\ infomap["Hostname"] = sys_info.hostname
        /\ Reads(infomap["CPU Cores"], sys_info.cpu_cores)
        /\ Reads(infomap["CPU Virtual Cores"], sys_info.cpu_virtual_cores)
        /\ Reads(infomap["Total Memory"], sys_info.total_memory)
        /\ Reads(infomap["Used Memory"], sys_info.used_memory)
        /\ Reads(infomap["Total Swap"], sys_info.total_swap)
        /\ Reads(infomap["Used Swap"], sys_info.used_swap)

C10_Witness ==
    /\ last.op = "new_to_hashmap"
    /\ Len(sys_info.disks) >= 1
    /\ "Disk Type" \in DOMAIN infomap
    /\ sys_info.total_memory = 120
    /\ infomap["Total Memory"] = <<"1", "2", "0">>
    /\ sys_info.used_memory = 7
    /\ infomap["Used Memory"] = <<"7">>

(* C11: every end(name) on a present timer sets its endtime to the clock   *)
(* reading at the call and returns that reading minus starttime in whole   *)
(* milliseconds; under a monotonic clock successive end(name) calls return *)
(* non-decreasing values; and a duration(name) after it is the most recent *)
(* endtime minus starttime.                                                *)
C11_LastEndWins ==
    [][/\ (last'.op = "end" /\ last'.name \in DOMAIN timer) =>
            /\ timer'[last'.name].endtime = now
            /\ last'.ret =
                 TruncDiv(now - timer[last'.name].starttime, TicksPerMs)
       /\ (last'.op = "end" /\ last'.name \in DOMAIN endret /\ ~skewed') =>
            last'.ret >= endret[last'.name]
       /\ (last'.op = "duration" /\ last'.name \in DOMAIN endret') =>
            last'.ret =
               TruncDiv(timer'[last'.name].endtime - timer'[last'.name].starttime,
                        TicksPerMs)
      ]_vars

(* C12: duration and rate leave the registry as it was; end on an absent   *)
(* name leaves it as it was; end on a present name changes only that       *)
(* timer's endtime.  No end, duration or rate adds or removes a name.      *)
C12_FrameConditions ==
    [][/\ last'.op \in {"duration", "rate"} => timer' = timer
       /\ last'.op = "end" =>
            /\ DOMAIN timer' = DOMAIN timer
            /\ \A k \in DOMAIN timer \ {last'.name} : timer'[k] = timer[k]
            /\ last'.name \in DOMAIN timer =>
                  timer'[last'.name].starttime = timer[last'.name].starttime
            /\ last'.name \notin DOMAIN timer => timer' = timer
      ]_vars

C12_Witness ==
    /\ last.op = "end"
    /\ Present(last.name)
    /\ timer[last.name].endtime > timer[last.name].starttime
    /\ timer[last.name].endtime = now
    /\ \E k \in Names \ {last.name} :
          Present(k) /\ Ended(k) /\ timer[k].endtime # now

====
